---- MODULE Spec2Model ----
(***************************************************************************)
(* Model of the DD-WRT NVRAM tools: nvram_dump (binary backup image ->     *)
(* "name=value" text) and nvram_build (text -> binary backup image).       *)
(*                                                                         *)
(* Bytes are the integers 0..255.  A C buffer is a sequence of bytes; a    *)
(* position past the end of the sequence reads as 0 (the NUL terminator,   *)
(* or the zero-initialised tail of a static buffer).  A C string inside a  *)
(* buffer ends at the first 0 byte.                                        *)
(***************************************************************************)
EXTENDS Integers, Sequences, FiniteSets, TLC

(* ------------------------------------------------------------------ *)
(* Character codes used by the code                                   *)
(* ------------------------------------------------------------------ *)
NUL == 0
BEL == 7
BSP == 8
TAB == 9
NL == 10
VT == 11
FF == 12
CR == 13
SPACE == 32
PLUS == 43
MINUS == 45
CH_0 == 48
CH_9 == 57
EQUALS == 61
CH_A == 65
CH_F == 70
BACKSLASH == 92
CH_a == 97
CH_b == 98
CH_f == 102
CH_n == 110
CH_r == 114
CH_t == 116
CH_v == 118
CH_x == 120
DEL == 127

ESC_FULL == 0
ESC_HUMAN == 1

(* Sizes of the static buffers *)
BUFFER_SIZE == 131072
R_NAME_SIZE == 257
R_VALUE_SIZE == 65537
ESC_NAME_MAX == 513
ESC_VALUE_MAX == 131073

(* "DD-WRT" *)
Magic == <<68, 68, 45, 87, 82, 84>>

(* ------------------------------------------------------------------ *)
(* C string primitives                                                *)
(* ------------------------------------------------------------------ *)

(* *(mem + i - 1): the byte at 1-based position i *)
At(mem, i) == IF i >= 1 /\ i <= Len(mem) THEN mem[i] ELSE NUL

(* position of the first NUL at or after position p *)
NulPos(mem, p) ==
    IF \E k \in p..Len(mem) : mem[k] = NUL
    THEN CHOOSE k \in p..Len(mem) : mem[k] = NUL /\ \A j \in p..(k-1) : mem[j] # NUL
    ELSE IF p > Len(mem) THEN p ELSE Len(mem) + 1

(* strlen( mem + p - 1 ) *)
strlen(mem, p) == NulPos(mem, p) - p

(* the C string that starts at position p, without its terminator *)
CStr(mem, p) == SubSeq(mem, p, NulPos(mem, p) - 1)

(* strchr( mem + p - 1, c ) for c # NUL: position of the first c in the C
   string at p, or 0 (NULL) when there is none *)
strchr(mem, p, c) ==
    LET e == NulPos(mem, p)
    IN  IF \E k \in p..(e-1) : mem[k] = c
        THEN CHOOSE k \in p..(e-1) : mem[k] = c /\ \A j \in p..(k-1) : mem[j] # c
        ELSE 0

isascii(c) == c >= 0 /\ c <= 127
iscntrl(c) == (c >= 0 /\ c <= 31) \/ c = DEL
isspace(c) == (c >= TAB /\ c <= CR) \/ c = SPACE

IsHexDigit(c) ==
    \/ (c >= CH_0 /\ c <= CH_9)
    \/ (c >= CH_A /\ c <= CH_F)
    \/ (c >= CH_a /\ c <= CH_f)

HexVal(c) ==
    IF c >= CH_0 /\ c <= CH_9 THEN c - CH_0
    ELSE IF c >= CH_A /\ c <= CH_F THEN c - CH_A + 10
    ELSE c - CH_a + 10

(* one digit of "%02.2X" *)
HexChar(d) == IF d < 10 THEN CH_0 + d ELSE CH_A + (d - 10)

(* ------------------------------------------------------------------ *)
(* escape_string (nvram_dump)                                         *)
(* ------------------------------------------------------------------ *)

(* sprintf( tmpbuf, "\\x%02.2X", src[i] & 0xFF ) *)
HexEscape(c) == <<BACKSLASH, CH_x, HexChar(c \div 16), HexChar(c % 16)>>

(* the contents of tmpbuf for one source byte *)
EscapeByte(escape_mode, c) ==
    IF isascii(c)
    THEN IF iscntrl(c)
         THEN IF c = NL
              THEN IF escape_mode = ESC_HUMAN
                   THEN <<BACKSLASH, NL>>
                   ELSE <<BACKSLASH, CH_n>>
              ELSE IF c = BEL THEN <<BACKSLASH, CH_a>>
              ELSE IF c = BSP THEN <<BACKSLASH, CH_b>>
              ELSE IF c = FF THEN <<BACKSLASH, CH_f>>
              ELSE IF c = CR THEN <<BACKSLASH, CH_r>>
              ELSE IF c = TAB THEN <<BACKSLASH, CH_t>>
              ELSE IF c = VT THEN <<BACKSLASH, CH_v>>
              ELSE HexEscape(c)
         ELSE IF c = BACKSLASH THEN <<BACKSLASH, BACKSLASH>>
         ELSE <<c>>
    ELSE HexEscape(c)

(* a loop whose room test lets the terminator land on dest[max] *)
RECURSIVE EscapeLoop_offbyone(_, _, _, _, _, _)
EscapeLoop_offbyone(escape_mode, src, len, max, i, dest) ==
    IF i >= len
    THEN [ret |-> i, dest |-> dest]
    ELSE IF Len(dest) + Len(EscapeByte(escape_mode, src[i + 1])) > max
    THEN [ret |-> i, dest |-> dest]
    ELSE EscapeLoop_offbyone(escape_mode, src, len, max, i + 1,
                             dest \o EscapeByte(escape_mode, src[i + 1]))

(* the for loop of escape_string: i source bytes consumed, dest written *)
RECURSIVE EscapeLoop(_, _, _, _, _, _)
EscapeLoop(escape_mode, src, len, max, i, dest) ==
    IF i >= len
    THEN [ret |-> i, dest |-> dest]
    ELSE LET tmpbuf == EscapeByte(escape_mode, src[i + 1])
         IN  IF Len(dest) + Len(tmpbuf) >= max
             THEN [ret |-> i, dest |-> dest]
             ELSE EscapeLoop(escape_mode, src, len, max, i + 1, dest \o tmpbuf)

(* escape_string( escape_mode, src, dest, max ): src is the buffer handed in
   (it may hold NUL bytes; the code sees it up to the first one), dest is the
   C string left in the destination, ret the returned count *)
escape_string(escape_mode, src, max) ==
    IF max <= 0
    THEN [ret |-> 0, dest |-> <<>>]
    ELSE EscapeLoop(escape_mode, src, strlen(src, 1), max, 0, <<>>)

(* ------------------------------------------------------------------ *)
(* unescape_string (nvram_build)                                      *)
(* ------------------------------------------------------------------ *)

(* strtol( s, &eptr, 16 ) on the 3-byte buffer s = {s0, s1, 0}:
   end is eptr - s, val is (char) v as an unsigned byte *)
strtol2(s0, s1) ==
    IF isspace(s0) \/ s0 = PLUS \/ s0 = MINUS
    THEN IF IsHexDigit(s1)
         THEN [end |-> 2,
               val |-> IF s0 = MINUS THEN (256 - HexVal(s1)) % 256 ELSE HexVal(s1)]
         ELSE [end |-> 0, val |-> 0]
    ELSE IF IsHexDigit(s0)
         THEN IF IsHexDigit(s1)
              THEN [end |-> 2, val |-> 16 * HexVal(s0) + HexVal(s1)]
              ELSE [end |-> 1, val |-> HexVal(s0)]
         ELSE [end |-> 0, val |-> 0]

(* the byte a two-character escape \c stands for (switch cases 'a'..'\\',
   and the default case, which copies c) *)
SimpleEscape(c) ==
    IF c = CH_a THEN BEL
    ELSE IF c = CH_b THEN BSP
    ELSE IF c = CH_f THEN FF
    ELSE IF c = CH_n THEN NL
    ELSE IF c = CH_r THEN CR
    ELSE IF c = CH_t THEN TAB
    ELSE IF c = CH_v THEN VT
    ELSE c

(* the while loop of unescape_string: p is the read position in mem, q the
   bytes written to dest so far, rd the highest position read so far *)
RECURSIVE UnescapeLoop(_, _, _, _)
UnescapeLoop(mem, p, q, rd) ==
    LET c == At(mem, p)
        rd1 == IF p > rd THEN p ELSE rd
    IN  IF c = NUL
        THEN [sts |-> 0, dest |-> q, rd |-> rd1, stop |-> p]
        ELSE IF c # BACKSLASH
        THEN \* the else branch, taken for each byte of a run of plain bytes:
             \* the run is copied up to the next backslash or NUL
             LET e == CHOOSE k \in (p + 1)..(Len(mem) + 1) :
                          /\ At(mem, k) \in {NUL, BACKSLASH}
                          /\ \A j \in (p + 1)..(k - 1) : At(mem, j) \notin {NUL, BACKSLASH}
             IN  UnescapeLoop(mem, e, q \o SubSeq(mem, p, e - 1), e - 1)
        ELSE LET d == At(mem, p + 1)
             IN  IF d = CH_x
                 THEN LET r == strtol2(At(mem, p + 2), At(mem, p + 3))
                      IN  IF r.end # 2
                          THEN [sts |-> 1, dest |-> q, rd |-> p + 3, stop |-> p + 2]
                          ELSE UnescapeLoop(mem, p + 4, Append(q, r.val), p + 3)
                 ELSE UnescapeLoop(mem, p + 2, Append(q, SimpleEscape(d)), p + 1)

(* unescape_string( mem + start - 1, dest ): sts is the return value, dest
   the bytes stored before the terminator, rd the highest source position
   read, stop the position where the scan ended *)
unescape_string(mem, start) == UnescapeLoop(mem, start, <<>>, start)

(* ------------------------------------------------------------------ *)
(* build_file (nvram_build)                                           *)
(* ------------------------------------------------------------------ *)

(* a buffer without the zero bytes at its end: positions past the end of a
   sequence read as 0, so this is the same buffer *)
RECURSIVE Trim(_)
Trim(mem) ==
    IF mem = <<>> \/ mem[Len(mem)] # NUL
    THEN mem
    ELSE Trim(SubSeq(mem, 1, Len(mem) - 1))

(* *(mem + i - 1) = c *)
Poke(mem, i, c) ==
    IF i <= Len(mem)
    THEN [mem EXCEPT ![i] = c]
    ELSE IF c = NUL THEN mem
    ELSE mem \o [k \in 1..(i - Len(mem)) |-> IF k = i - Len(mem) THEN c ELSE NUL]

(* a read that never sees more than the buffer holds: no file is too large *)
FreadCount_unlimited(file) ==
    IF Len(file.data) <= BUFFER_SIZE THEN Len(file.data) ELSE BUFFER_SIZE

(* fread( buffer, 1, 128*1024+1, f ): the number of bytes read.  A padded
   file is its data followed by NUL bytes up to more than the buffer holds *)
FreadCount(file) ==
    IF file.padded THEN BUFFER_SIZE + 1 ELSE Len(file.data)

(* the static buffer after the fread: the file's bytes over the old
   contents, which stay in place past the end of what was read *)
FreadInto(buffer, file) ==
    IF file.padded
    THEN Trim(file.data)
    ELSE Trim(file.data \o SubSeq(buffer, Len(file.data) + 1, Len(buffer)))

(* the continuation loop: buffer[i+1] = 'n' wherever buffer[i] is a backslash
   and buffer[i+1] a newline, for i < strlen( buffer ).  The loop only turns
   newlines into 'n' and only tests for a backslash at i and a newline at
   i+1, so an earlier rewrite never changes a later test *)
NormalizeContinuations(buffer) ==
    LET max == strlen(buffer, 1)
    IN  [k \in 1..Len(buffer) |->
            IF k >= 2 /\ k - 1 <= max /\ buffer[k - 1] = BACKSLASH /\ buffer[k] = NL
            THEN CH_n
            ELSE buffer[k]]

(* the record build_file assembles in output_buffer from the unescaped
   name and value (C strings) *)
RecordBytes(name, value) ==
    LET len == Len(name) % 256
        vlen == Len(value) % 65536
    IN  <<len>> \o SubSeq(name, 1, len)
        \o <<vlen % 256, (vlen \div 256) % 256>> \o SubSeq(value, 1, vlen)

(* the end of the line at p: the first newline of the C string at p, or its
   terminator when the last line lacks a newline *)
LineEnd(mem, p) ==
    IF strchr(mem, p, NL) = 0 THEN p + strlen(mem, p) ELSE strchr(mem, p, NL)

(* the end of a loop iteration that writes a record: name and value are the
   unescaped C strings *)
WriteRecord(st, name, value, ub) ==
    [st EXCEPT !.written = @ \o RecordBytes(name, value),
               !.recs = Append(@, [name |-> name, value |-> value]),
               !.record_count = @ + 1,
               !.ub = @ \/ ub]

(* the loop iteration from the unescaping on: un and uv are the results of
   unescape_string for the name and the value.  ub: a store past the end
   of r_name or r_value *)
UnescapeAndWrite(st, un, uv) ==
    IF un.sts # 0
    THEN [st EXCEPT !.diag = Append(@, "problem unescaping name"),
                    !.ub = @ \/ (Len(un.dest) > R_NAME_SIZE)]
    ELSE IF uv.sts # 0
    THEN [st EXCEPT !.diag = Append(@, "problem unescaping value"),
                    !.ub = @ \/ (Len(un.dest) + 1 > R_NAME_SIZE)
                             \/ (Len(uv.dest) > R_VALUE_SIZE)]
    ELSE WriteRecord(st, CStr(un.dest, 1), CStr(uv.dest, 1),
                     (Len(un.dest) + 1 > R_NAME_SIZE)
                     \/ (Len(uv.dest) + 1 > R_VALUE_SIZE))

(* the loop iteration once the line is terminated: the name starts at name,
   the value after p_equals *)
ParseRecord(st, name, p_equals) ==
    IF strlen(st.mem, name) = 0
    THEN [st EXCEPT !.diag = Append(@, "name is empty")]
    ELSE UnescapeAndWrite(st, unescape_string(st.mem, name),
                          unescape_string(st.mem, p_equals + 1))

(* one iteration of the parse loop with p_equals and p_newline found *)
ParseLine(st, p_equals, p_newline) ==
    IF p_equals = 0
    THEN [st EXCEPT !.p_start = p_newline + 1,
                    !.diag = Append(@, "missing equals sign")]
    ELSE ParseRecord([st EXCEPT !.mem = Poke(Poke(@, p_newline, NUL), p_equals, NUL),
                                !.p_start = p_newline + 1],
                     st.p_start, p_equals)

(* the parse loop of build_file.  st = [mem, p_start, written, recs,
   record_count, diag, ub] *)
RECURSIVE ParseLoop(_, _)
ParseLoop(st, p_end) ==
    IF ~(st.p_start < p_end)
    THEN st
    ELSE ParseLoop(ParseLine(st, strchr(st.mem, st.p_start, EQUALS),
                             LineEnd(st.mem, st.p_start)),
                   p_end)

(* what build_file returns and leaves behind after the parse loop *)
BuildResult(fin) ==
    [cnt |-> fin.record_count, written |-> fin.written,
     buffer |-> Trim(fin.mem), recs |-> fin.recs, diag |-> fin.diag,
     ub |-> fin.ub]

(* build_file from the continuation loop on, mem being the buffer it left *)
ParseBuffer(mem) ==
    BuildResult(ParseLoop([mem |-> mem, p_start |-> 1, written |-> <<>>,
                           recs |-> <<>>, record_count |-> 0, diag |-> <<>>,
                           ub |-> FALSE],
                          1 + strlen(mem, 1)))

(* build_file( output_file, filename ) with the static buffer as it was left
   by the calls before: cnt is the return value, written the bytes appended
   to the output file, buffer the static buffer afterwards, recs the
   unescaped name and value of each record written *)
build_file(buffer, file) ==
    IF ~file.exists
    THEN [cnt |-> -1, written |-> <<>>, buffer |-> buffer, recs |-> <<>>,
          diag |-> <<"Error opening">>, ub |-> FALSE]
    ELSE IF ~(FreadCount(file) <= BUFFER_SIZE)
    THEN [cnt |-> -1, written |-> <<>>, buffer |-> FreadInto(buffer, file),
          recs |-> <<>>, diag |-> <<"Problem reading">>, ub |-> FALSE]
    ELSE ParseBuffer(NormalizeContinuations(FreadInto(buffer, file)))

(* output_header: the 8 bytes "DD-WRT\0\0" *)
output_header == Magic \o <<NUL, NUL>>

(* fixup_record_count: the two bytes at offset 6 overwritten *)
fixup_record_count(out, count) ==
    [out EXCEPT ![7] = count % 256, ![8] = (count \div 256) % 256]

(* ------------------------------------------------------------------ *)
(* dump_file (nvram_dump)                                             *)
(* ------------------------------------------------------------------ *)

(* the record loop of dump_file.  st = [pos, record, out, recs, diag]; pos is
   the file position (bytes consumed so far) *)
RECURSIVE DumpLoop(_, _, _, _)
DumpLoop(escape_mode, data, record_count, st) ==
    IF ~(st.record < record_count)
    THEN [st EXCEPT !.sts = 0]
    ELSE
    LET pos == st.pos
        avail == Len(data) - pos
    IN  IF avail < 1
        THEN [st EXCEPT !.sts = 1, !.diag = Append(@, "Error reading name length")]
        ELSE
        LET name_len == data[pos + 1]
        IN  IF avail - 1 < name_len
            THEN [st EXCEPT !.sts = 1, !.diag = Append(@, "Error reading name")]
            ELSE
            LET name == SubSeq(data, pos + 2, pos + 1 + name_len)
                vpos == pos + 1 + name_len
            IN  IF Len(data) - vpos < 2
                THEN [st EXCEPT !.sts = 1,
                                !.diag = Append(@, "Error reading value length")]
                ELSE
                LET value_len == data[vpos + 2] * 256 + data[vpos + 1]
                IN  IF Len(data) - (vpos + 2) < value_len
                    THEN [st EXCEPT !.sts = 1,
                                    !.diag = Append(@, "Error reading value")]
                    ELSE
                    LET value == SubSeq(data, vpos + 3, vpos + 2 + value_len)
                        en == escape_string(ESC_FULL, name, ESC_NAME_MAX)
                        ev == escape_string(escape_mode, value, ESC_VALUE_MAX)
                        d1 == IF en.ret < strlen(name, 1)
                              THEN <<"cannot copy entire name">>
                              ELSE IF strlen(name, 1) < Len(en.dest)
                              THEN <<"contains non-printable characters">>
                              ELSE <<>>
                        d2 == IF ev.ret < strlen(value, 1)
                              THEN <<"cannot copy entire value">>
                              ELSE <<>>
                    IN  DumpLoop(escape_mode, data, record_count,
                            [st EXCEPT
                                !.pos = vpos + 2 + value_len,
                                !.record = @ + 1,
                                !.out = @ \o en.dest \o <<EQUALS>> \o ev.dest \o <<NL>>,
                                !.recs = Append(@, [name |-> name, value |-> value]),
                                !.diag = @ \o d1 \o d2])

(* a header check that compares one byte too few *)
memcmp_magic_short(data) ==
    IF SubSeq(data, 1, 5) = SubSeq(Magic, 1, 5) THEN 0 ELSE 1

(* memcmp( buffer, "DD-WRT", 6 ): 0 when the first 6 bytes are the magic tag *)
memcmp_magic(data) ==
    IF SubSeq(data, 1, 6) = Magic THEN 0 ELSE 1

(* dump_file( escape_mode, filename ): sts is the return value, out the bytes
   written to stdout, record_count the count taken from the header, recs the
   records read from the image *)
dump_file(escape_mode, file) ==
    IF ~file.exists
    THEN [sts |-> 1, out |-> <<>>, record_count |-> 0, recs |-> <<>>,
          diag |-> <<"Error opening">>]
    ELSE
    LET data == file.data
        read_bytes == IF Len(data) < 8 THEN Len(data) ELSE 8
    IN  IF read_bytes # 8 \/ memcmp_magic(data) # 0
        THEN [sts |-> 1, out |-> <<>>, record_count |-> 0, recs |-> <<>>,
              diag |-> <<"Error reading header and record count">>]
        ELSE
        LET record_count == data[8] * 256 + data[7]
            fin == DumpLoop(escape_mode, data, record_count,
                            [pos |-> 8, record |-> 0, out |-> <<>>, recs |-> <<>>,
                             diag |-> <<>>, sts |-> 0])
        IN  [sts |-> fin.sts, out |-> fin.out, record_count |-> record_count,
             recs |-> fin.recs, diag |-> fin.diag]

(* ------------------------------------------------------------------ *)
(* The backup image layout (what dump_file reads)                     *)
(* ------------------------------------------------------------------ *)

RECURSIVE RecordsBytes(_)
RecordsBytes(records) ==
    IF records = <<>>
    THEN <<>>
    ELSE RecordBytes(Head(records).name, Head(records).value)
         \o RecordsBytes(Tail(records))

(* the image that holds the given records: header, count, records *)
ImageOf(records) ==
    Magic \o <<Len(records) % 256, (Len(records) \div 256) % 256>>
    \o RecordsBytes(records)

(* the records laid out in data after position pos (bytes consumed), read to
   the end of the data; a record cut short ends the list *)
RECURSIVE RecordsIn(_, _)
RecordsIn(data, pos) ==
    IF Len(data) - pos < 1
    THEN <<>>
    ELSE LET name_len == data[pos + 1]
             vpos == pos + 1 + name_len
         IN  IF Len(data) - vpos < 2
             THEN <<>>
             ELSE LET value_len == data[vpos + 2] * 256 + data[vpos + 1]
                  IN  IF Len(data) - (vpos + 2) < value_len
                      THEN <<>>
                      ELSE <<[name |-> SubSeq(data, pos + 2, vpos),
                              value |-> SubSeq(data, vpos + 3, vpos + 2 + value_len)]>>
                           \o RecordsIn(data, vpos + 2 + value_len)

(* the record count stored in an image's header *)
HeaderCount(image) == image[8] * 256 + image[7]

(* ------------------------------------------------------------------ *)
(* Bounds and input sets                                              *)
(* ------------------------------------------------------------------ *)

(* input files per run *)
MaxFiles == 2
(* total length of the enumerated text files of one nvram_build run *)
MaxTextLen == 7
(* length of the record area of an enumerated image *)
MaxBodyLen == 4
(* length of an enumerated escape / unescape source *)
MaxSrcLen == 4
(* records and value length of the enumerated round-trip inputs *)
MaxRecords == 2
MaxValueLen == 2
(* total length of the enumerated text files of one run in SpecRuns *)
MaxRunTextLen == 4
(* length of an enumerated source of the bounded encode *)
MaxEncLen == 3

SeqsUpTo(S, n) == UNION {[1..k -> S] : k \in 0..n}

Repeat(c, n) == [k \in 1..n |-> c]

TextFile(data) == [exists |-> TRUE, padded |-> FALSE, data |-> data]
MissingFile == [exists |-> FALSE, padded |-> FALSE, data |-> <<>>]

(* text files: every byte string of at most n bytes over the characters the
   parser treats specially plus a letter *)
TextAlphabet == {CH_a, EQUALS, NL, BACKSLASH}
ShortTexts(n) == SeqsUpTo(TextAlphabet, n)

(* text files with a name of 255 and of 256 characters *)
LongNameFiles ==
    { TextFile(Repeat(CH_a, 255) \o <<EQUALS, CH_a>>),
      TextFile(Repeat(CH_a, 256) \o <<EQUALS, CH_a>>) }

(* an unreadable file, and a file too large for the buffer *)
FailingFiles ==
    { MissingFile,
      [exists |-> TRUE, padded |-> TRUE, data |-> <<CH_a, EQUALS, CH_a>>] }

(* text files whose only line holds an escape that does not decode *)
BadEscapeFiles ==
    { TextFile(<<CH_a, EQUALS, BACKSLASH, CH_x>>),
      TextFile(<<BACKSLASH, CH_x, EQUALS, CH_a>>) }

(* images: a header (right or wrong magic, a count) and a short record area,
   and images shorter than a header *)
Headers ==
    { h \o <<lo, hi>> : h \in {Magic, [Magic EXCEPT ![1] = CH_a], [Magic EXCEPT ![6] = CH_a]},
                        lo \in 0..2, hi \in 0..1 } 
BodyAlphabet == {NUL, 1, CH_a}
Images ==
    { [exists |-> TRUE, data |-> h \o b] : h \in Headers, b \in SeqsUpTo(BodyAlphabet, MaxBodyLen) }
    \cup { [exists |-> TRUE, data |-> SubSeq(Magic \o <<1, 0>>, 1, k)] : k \in 0..7 }
    \cup { [exists |-> FALSE, data |-> <<>>] }
(* images given after the first one of a run *)
NextImages ==
    { [exists |-> TRUE, data |-> d] :
        d \in { ImageOf(<<>>),
                ImageOf(<<[name |-> <<CH_a>>, value |-> <<CH_a>>]>>),
                Magic \o <<1, 0, 1, CH_a>>,
                [Magic EXCEPT ![1] = CH_a] \o <<1, 0, 1, CH_a, 0, 0>> } }
    \cup { [exists |-> FALSE, data |-> <<>>] }

(* sources for escape_string and unescape_string *)
SrcAlphabet == {NUL, NL, SPACE, PLUS, MINUS, CH_0 + 1, BACKSLASH, 103, CH_x, 200}
Sources == SeqsUpTo(SrcAlphabet, MaxSrcLen)

(* sources for the bounded encode: a byte of each class escape_string tells
   apart (terminator, named control, newline, other control, plain,
   backslash, DEL, non-ASCII) *)
EncAlphabet == {NUL, 1, BEL, NL, SPACE, BACKSLASH, CH_a, DEL, 200}
EncSources == SeqsUpTo(EncAlphabet, MaxEncLen)
(* the largest destination size tried: one more than any enumerated source
   needs with its terminator *)
EncMax == 4 * MaxEncLen + 2

(* record sequences for the round trip *)
ValueAlphabet == {NUL, NL, BACKSLASH, CH_a, 200}
RoundTripRecords ==
    SeqsUpTo([name : {<<CH_a>>, <<CH_a, CH_b>>},
              value : SeqsUpTo(ValueAlphabet, MaxValueLen)], MaxRecords)

(* ------------------------------------------------------------------ *)
(* State                                                              *)
(* ------------------------------------------------------------------ *)
VARIABLES
    pc,             \* nvram_build main: "loop" or "done"
    f_open,         \* nvram_build main: f != NULL
    out,            \* contents of the output file
    buffer,         \* build_file's static read buffer
    record_count,   \* nvram_build main: record_count
    ret,            \* nvram_build main: ret
    hist,           \* per input file of nvram_build: the file and what build_file did
    escape,         \* nvram_dump main: escape
    d_pc,           \* nvram_dump main: "loop" or "done"
    d_stdout,       \* bytes nvram_dump wrote to stdout
    d_ret,          \* nvram_dump main: ret
    d_hist,         \* per input file of nvram_dump: the file and what dump_file did
    e_pc,           \* escape engine: "init", "escaped", "decoded", "unescaped"
    e_src,          \* escape engine: the source
    e_esc,          \* escape engine: result of escape_string
    e_dec           \* escape engine: result of unescape_string

buildVars == <<pc, f_open, out, buffer, record_count, ret, hist>>
dumpVars == <<escape, d_pc, d_stdout, d_ret, d_hist>>
escVars == <<e_pc, e_src, e_esc, e_dec>>
vars == <<pc, f_open, out, buffer, record_count, ret, hist,
          escape, d_pc, d_stdout, d_ret, d_hist, e_pc, e_src, e_esc, e_dec>>

NoEsc == [ret |-> 0, dest |-> <<>>, mode |-> ESC_FULL, max |-> 0]
NoDec == [sts |-> 0, dest |-> <<>>, rd |-> 0, stop |-> 0]

InitBuild ==
    /\ pc = "loop"
    /\ f_open = FALSE
    /\ out = <<>>
    /\ buffer = <<>>
    /\ record_count = 0
    /\ ret = 0
    /\ hist = <<>>

InitDump ==
    /\ d_pc = "loop"
    /\ d_stdout = <<>>
    /\ d_ret = 0
    /\ d_hist = <<>>

InitEsc ==
    /\ e_pc = "init"
    /\ e_esc = NoEsc
    /\ e_dec = NoDec

(* ------------------------------------------------------------------ *)
(* nvram_build main                                                   *)
(* ------------------------------------------------------------------ *)

(* the bookkeeping of main after build_file returned res for file *)
BuildApply(file, res) ==
    /\ f_open' = TRUE
    /\ out' = (IF f_open THEN out ELSE output_header) \o res.written
    /\ buffer' = res.buffer
    /\ ret' = IF res.cnt < 0 THEN 1 ELSE ret
    /\ record_count' = IF res.cnt < 0 THEN record_count
                       ELSE record_count + res.cnt
    /\ hist' = Append(hist, [file |-> file, res |-> res])

(* one iteration of the loop over argv: open the output and write the header
   the first time, then build_file and the bookkeeping of its result *)
BuildStep(file) ==
    /\ pc = "loop"
    /\ BuildApply(file, build_file(buffer, file))
    /\ pc' = pc

(* total length of the enumerated text files read so far *)
RECURSIVE TextLenOf(_)
TextLenOf(h) ==
    IF h = <<>> THEN 0
    ELSE (IF Head(h).file.exists /\ ~Head(h).file.padded
          THEN Len(Head(h).file.data) ELSE 0)
         + TextLenOf(Tail(h))

BuildFile ==
    /\ Len(hist) < MaxFiles
    /\ \/ \E file \in FailingFiles : BuildStep(file)
       \/ \E file \in LongNameFiles : hist = <<>> /\ BuildStep(file)
       \/ \E data \in ShortTexts(MaxTextLen - TextLenOf(hist)) :
            BuildStep(TextFile(data))
    /\ UNCHANGED <<dumpVars, escVars>>

(* after the loop: fixup_record_count when no file failed, fclose, return *)
BuildFinish ==
    /\ pc = "loop"
    /\ Len(hist) >= 1
    /\ pc' = "done"
    /\ out' = IF f_open /\ ret = 0 THEN fixup_record_count(out, record_count) ELSE out
    /\ UNCHANGED <<f_open, buffer, record_count, ret, hist, dumpVars, escVars>>

(* ------------------------------------------------------------------ *)
(* nvram_dump main                                                    *)
(* ------------------------------------------------------------------ *)

(* one iteration of the loop over argv *)
DumpStep(file) ==
    /\ d_pc = "loop"
    /\ LET res == dump_file(escape, file)
       IN  /\ d_stdout' = d_stdout \o res.out
           /\ d_ret' = IF res.sts # 0 /\ d_ret = 0 THEN res.sts ELSE d_ret
           /\ d_hist' = Append(d_hist, [file |-> file, res |-> res])
    /\ UNCHANGED <<escape, d_pc>>

DumpFile ==
    /\ Len(d_hist) < MaxFiles
    /\ \E file \in (IF d_hist = <<>> THEN Images ELSE NextImages) : DumpStep(file)
    /\ UNCHANGED <<buildVars, escVars>>

DumpExit ==
    /\ d_pc = "loop"
    /\ Len(d_hist) >= 1
    /\ d_pc' = "done"
    /\ UNCHANGED <<escape, d_stdout, d_ret, d_hist, buildVars, escVars>>

(* ------------------------------------------------------------------ *)
(* The escape engine on its own                                       *)
(* ------------------------------------------------------------------ *)

(* a destination large enough for any enumerated source *)
BigMax == 4 * (MaxSrcLen + 1) + 1

Escape ==
    /\ e_pc = "init"
    /\ \E mode \in {ESC_FULL, ESC_HUMAN}, max \in {0, 2, 5, BigMax} :
         LET r == escape_string(mode, e_src, max)
         IN  e_esc' = [ret |-> r.ret, dest |-> r.dest, mode |-> mode, max |-> max]
    /\ e_pc' = "escaped"
    /\ UNCHANGED <<e_src, e_dec, buildVars, dumpVars>>

(* unescape_string on what escape_string left in dest *)
Decode ==
    /\ e_pc = "escaped"
    /\ e_dec' = unescape_string(e_esc.dest, 1)
    /\ e_pc' = "decoded"
    /\ UNCHANGED <<e_src, e_esc, buildVars, dumpVars>>

(* unescape_string on the source itself *)
Unescape ==
    /\ e_pc = "init"
    /\ e_dec' = unescape_string(e_src, 1)
    /\ e_pc' = "unescaped"
    /\ UNCHANGED <<e_src, e_esc, buildVars, dumpVars>>

(* ------------------------------------------------------------------ *)
(* Specifications                                                     *)
(* ------------------------------------------------------------------ *)

(* a run of nvram_build over text files *)
Init ==
    /\ InitBuild
    /\ InitDump /\ escape = ESC_FULL
    /\ InitEsc /\ e_src = <<>>
Next == BuildFile \/ BuildFinish
Spec == Init /\ [][Next]_vars

(* a run of nvram_dump over images *)
InitD ==
    /\ InitBuild
    /\ InitDump /\ escape \in {ESC_FULL, ESC_HUMAN}
    /\ InitEsc /\ e_src = <<>>
NextD == DumpFile \/ DumpExit
SpecDump == InitD /\ [][NextD]_vars

(* escape_string and unescape_string applied to enumerated sources *)
InitE ==
    /\ InitBuild
    /\ InitDump /\ escape = ESC_FULL
    /\ InitEsc /\ e_src \in Sources
NextE == Escape \/ Decode \/ Unescape
SpecEsc == InitE /\ [][NextE]_vars

(* the output of nvram_dump fed to nvram_build: an image of enumerated
   records is dumped, stdout is the one input file of the build *)
PipeDump ==
    /\ d_hist = <<>>
    /\ \E records \in RoundTripRecords :
         DumpStep([exists |-> TRUE, data |-> ImageOf(records)])
    /\ UNCHANGED <<buildVars, escVars>>

PipeBuild ==
    /\ d_pc = "done"
    /\ hist = <<>>
    /\ BuildStep(TextFile(d_stdout))
    /\ UNCHANGED <<dumpVars, escVars>>

NextP == PipeDump \/ DumpExit \/ PipeBuild \/ BuildFinish
SpecPipe == InitD /\ [][NextP]_vars

(* escape_string called with every destination size up to EncMax *)
Encode ==
    /\ e_pc = "init"
    /\ \E mode \in {ESC_FULL, ESC_HUMAN}, max \in 0..EncMax :
         LET r == escape_string(mode, e_src, max)
         IN  e_esc' = [ret |-> r.ret, dest |-> r.dest, mode |-> mode, max |-> max]
    /\ e_pc' = "escaped"
    /\ UNCHANGED <<e_src, e_dec, buildVars, dumpVars>>

InitEnc ==
    /\ InitBuild
    /\ InitDump /\ escape = ESC_FULL
    /\ InitEsc /\ e_src \in EncSources
NextEnc == Encode
SpecEnc == InitEnc /\ [][NextEnc]_vars

(* one invocation of either program over several input files: a run of
   nvram_build or a run of nvram_dump, each process running one main *)
RunBuild ==
    /\ d_hist = <<>>
    /\ Len(hist) < MaxFiles
    /\ \/ \E file \in FailingFiles : BuildStep(file)
       \/ \E file \in BadEscapeFiles : BuildStep(file)
       \/ \E data \in ShortTexts(MaxRunTextLen - TextLenOf(hist)) :
            BuildStep(TextFile(data))
    /\ UNCHANGED <<dumpVars, escVars>>

RunBuildFinish == d_hist = <<>> /\ BuildFinish

RunDump == hist = <<>> /\ DumpFile

RunDumpExit == hist = <<>> /\ DumpExit

NextR == RunBuild \/ RunBuildFinish \/ RunDump \/ RunDumpExit
SpecRuns == InitD /\ [][NextR]_vars

(* ------------------------------------------------------------------ *)
(* Properties                                                         *)
(* ------------------------------------------------------------------ *)

(* the records of an image, read by its layout *)
ImageRecords(image) == RecordsIn(image, 8)

(* C1: text round trip of the whole pipeline.  When nvram_build has finished
   on the text nvram_dump wrote for an image, its output image holds the
   image's records, byte for byte, in the same order and number. *)
C1_PipelineRoundTrip ==
    (pc = "done" /\ Len(d_hist) = 1 /\ Len(hist) = 1)
    => /\ ImageRecords(out) = ImageRecords(d_hist[1].file.data)
       /\ HeaderCount(out) = Len(ImageRecords(d_hist[1].file.data))

(* C2: escape engine round trip.  For every byte sequence and both modes,
   unescape_string on the untruncated output of escape_string returns 0 and
   yields the original byte sequence. *)
C2_EscapeRoundTrip ==
    (e_pc = "decoded" /\ e_esc.max = BigMax)
    => (e_dec.sts = 0 /\ e_dec.dest = e_src)

(* the round trip of C2 for the sources that hold no NUL byte *)
EscapeRoundTripNulFree ==
    (e_pc = "decoded" /\ e_esc.max = BigMax /\ \A k \in 1..Len(e_src) : e_src[k] # NUL)
    => (e_dec.sts = 0 /\ e_dec.dest = e_src)

(* C3: continuation normalization.  In a text "a=\\" newline rest, the doubled
   backslash is left alone: the newline ends the record, whose value is one
   backslash, and the next physical line is a record of its own. *)
C3_DoubledBackslashEndsRecord ==
    \A i \in 1..Len(hist) :
        LET d == hist[i].file.data
            recs == hist[i].res.recs
        IN  (/\ i = 1 /\ hist[i].file.exists /\ ~hist[i].file.padded
             /\ Len(d) >= 5
             /\ SubSeq(d, 1, 5) = <<CH_a, EQUALS, BACKSLASH, BACKSLASH, NL>>)
            => /\ Len(recs) >= 1
               /\ recs[1].name = <<CH_a>>
               /\ recs[1].value = <<BACKSLASH>>
               /\ (SubSeq(d, 6, Len(d)) = <<CH_a, EQUALS>>
                   => /\ Len(recs) = 2
                      /\ recs[2].name = <<CH_a>>
                      /\ recs[2].value = <<>>)

(* the physical lines of a text, split at its newlines *)
RECURSIVE SplitLines(_)
SplitLines(text) ==
    IF text = <<>>
    THEN <<>>
    ELSE IF \E k \in 1..Len(text) : text[k] = NL
    THEN LET k == CHOOSE k \in 1..Len(text) :
                      text[k] = NL /\ \A j \in 1..(k - 1) : text[j] # NL
         IN  <<SubSeq(text, 1, k - 1)>> \o SplitLines(SubSeq(text, k + 1, Len(text)))
    ELSE <<text>>

(* the records of a list of escape-free lines: a line without '=' or with an
   empty name gives none, any other gives the name before and the value
   after its first '=' *)
RECURSIVE LineRecords(_)
LineRecords(lines) ==
    IF lines = <<>>
    THEN <<>>
    ELSE LET l == Head(lines)
         IN  (IF (\E k \in 1..Len(l) : l[k] = EQUALS) /\ l[1] # EQUALS
              THEN LET k == CHOOSE k \in 1..Len(l) :
                                l[k] = EQUALS /\ \A j \in 1..(k - 1) : l[j] # EQUALS
                   IN  <<[name |-> SubSeq(l, 1, k - 1),
                          value |-> SubSeq(l, k + 1, Len(l))]>>
              ELSE <<>>)
             \o LineRecords(Tail(lines))

(* C4: malformed line handling.  For a text of at most 255 bytes without
   escapes, read into a fresh buffer, the bytes written are exactly the
   records of the lines that hold an '=': a line without one contributes
   nothing, and every valid line before or after it is a record with its own
   name and value. *)
C4_LineWithoutEqualsSkipped ==
    \A i \in 1..Len(hist) :
        LET d == hist[i].file.data
        IN  (/\ i = 1 /\ hist[i].file.exists /\ ~hist[i].file.padded
             /\ Len(d) <= 255
             /\ \A k \in 1..Len(d) : d[k] # BACKSLASH)
            => ImageRecords(output_header \o hist[i].res.written)
                 = LineRecords(SplitLines(d))

(* C5: structural length limits.  No record is written for a decoded name
   longer than 255 bytes or a decoded value longer than 65535 bytes, and the
   records written carry the whole decoded name and value. *)
C5_LengthLimitsEnforced ==
    \A i \in 1..Len(hist) :
        LET r == hist[i].res
        IN  /\ \A k \in 1..Len(r.recs) :
                 Len(r.recs[k].name) <= 255 /\ Len(r.recs[k].value) <= 65535
            /\ ImageRecords(output_header \o r.written)
                 = [k \in 1..Len(r.recs) |->
                       [name |-> r.recs[k].name, value |-> r.recs[k].value]]

(* C6: header count.  In the output image left behind when nvram_build has
   finished, the 16-bit count at offsets 6..7 is the number of records after
   the header. *)
C6_HeaderCountMatchesRecords ==
    (pc = "done" /\ f_open)
    => HeaderCount(out) = Len(ImageRecords(out))

(* C7: truncated image is all-or-nothing.  A dump_file call that ends with a
   failure status has written no record line for that image. *)
C7_NoOutputOnFailure ==
    \A i \in 1..Len(d_hist) :
        d_hist[i].res.sts # 0 => d_hist[i].res.out = <<>>

BadHeader(data) ==
    Len(data) < 8 \/ \E k \in 1..6 : data[k] # Magic[k]

(* C8: header validation.  An input shorter than the 8-byte header or whose
   first 6 bytes differ from "DD-WRT" fails and gives no output, whatever
   follows; otherwise the record count used is byte6 + 256*byte7: that many
   records are read when the dump succeeds, and fewer when it fails. *)
C8_HeaderValidation ==
    \A i \in 1..Len(d_hist) :
        LET d == d_hist[i].file.data
            r == d_hist[i].res
        IN  d_hist[i].file.exists
            => /\ BadHeader(d) => (r.sts # 0 /\ r.out = <<>> /\ r.recs = <<>>)
               /\ ~BadHeader(d)
                  => /\ r.record_count = d[7] + 256 * d[8]
                     /\ r.sts = 0 => Len(r.recs) = d[7] + 256 * d[8]
                     /\ r.sts # 0 => Len(r.recs) < d[7] + 256 * d[8]

(* C8 witness: one run has rejected an image with a wrong tag and bytes after
   the header, and dumped an image with a right tag and a record *)
C8_Witness ==
    \E i, j \in 1..Len(d_hist) :
        /\ d_hist[i].file.exists
        /\ Len(d_hist[i].file.data) > 8
        /\ BadHeader(d_hist[i].file.data)
        /\ d_hist[i].res.sts = 1
        /\ d_hist[j].file.exists
        /\ ~BadHeader(d_hist[j].file.data)
        /\ d_hist[j].res.sts = 0
        /\ Len(d_hist[j].res.recs) = 1

(* C9: strict hex escape.  A source that starts with backslash-x not followed
   by two hexadecimal digits makes unescape_string return 1. *)
C9_StrictHexEscape ==
    (/\ e_pc = "unescaped"
     /\ Len(e_src) >= 2 /\ e_src[1] = BACKSLASH /\ e_src[2] = CH_x
     /\ ~(IsHexDigit(At(e_src, 3)) /\ IsHexDigit(At(e_src, 4))))
    => e_dec.sts = 1

(* C10: no interference between files.  What build_file writes for an input
   file is what it writes for that file when it is the first one. *)
C10_NoInterference ==
    \A i \in 1..Len(hist) :
        LET alone == build_file(<<>>, hist[i].file)
        IN  /\ hist[i].res.cnt = alone.cnt
            /\ hist[i].res.written = alone.written

(* an input of nvram_build that cannot be converted: unreadable, or larger
   than the text buffer *)
FatalText(file) == ~file.exists \/ file.padded

(* an input of nvram_dump that cannot be converted: unreadable, bad header,
   or fewer complete records than its header announces *)
FatalImage(file) ==
    \/ ~file.exists
    \/ BadHeader(file.data)
    \/ Len(ImageRecords(file.data)) < HeaderCount(file.data)

(* the bytes the build_file calls of a run appended to the output file *)
RECURSIVE WrittenBy(_)
WrittenBy(h) ==
    IF h = <<>> THEN <<>> ELSE Head(h).res.written \o WrittenBy(Tail(h))

(* the bytes the dump_file calls of a run wrote to stdout *)
RECURSIVE PrintedBy(_)
PrintedBy(h) ==
    IF h = <<>> THEN <<>> ELSE Head(h).res.out \o PrintedBy(Tail(h))

(* C11: multi-file run and exit status.  In both programs a call fails
   exactly for an input that is fatally bad; an input after a failed one is
   still processed (a good image is dumped whole, a text file after
   unreadable ones is built as if it came first, and the output holds what
   every call produced); and the exit status at the end is non-zero exactly
   when some input failed, so line errors alone leave it 0. *)
C11_MultiFileStatus ==
    /\ \A i \in 1..Len(hist) :
          /\ (hist[i].res.cnt < 0) <=> FatalText(hist[i].file)
          /\ ~FatalText(hist[i].file) => hist[i].res.cnt = Len(hist[i].res.recs)
          /\ (\A j \in 1..(i - 1) : ~hist[j].file.exists)
               => hist[i].res = build_file(<<>>, hist[i].file)
    /\ f_open => SubSeq(out, 9, Len(out)) = WrittenBy(hist)
    /\ (ret # 0) <=> (\E i \in 1..Len(hist) : FatalText(hist[i].file))
    /\ \A i \in 1..Len(d_hist) :
          /\ (d_hist[i].res.sts # 0) <=> FatalImage(d_hist[i].file)
          /\ ~FatalImage(d_hist[i].file)
               => Len(d_hist[i].res.recs) = HeaderCount(d_hist[i].file.data)
    /\ d_stdout = PrintedBy(d_hist)
    /\ (d_ret # 0) <=> (\E i \in 1..Len(d_hist) : FatalImage(d_hist[i].file))

(* C11 witness: nvram_build has finished a run whose first input failed and
   whose second input, with a faulty line in it, still put a record into the
   output; the status is 1 *)
C11_Witness ==
    /\ pc = "done"
    /\ Len(hist) = 2
    /\ FatalText(hist[1].file)
    /\ ~FatalText(hist[2].file)
    /\ hist[2].res.diag # <<>>
    /\ Len(hist[2].res.recs) >= 1
    /\ Len(out) > 8
    /\ ret = 1

(* the escape sequences of the first n bytes of src, one after the other *)
RECURSIVE EscapeAll(_, _, _)
EscapeAll(escape_mode, src, n) ==
    IF n = 0 THEN <<>>
    ELSE EscapeAll(escape_mode, src, n - 1) \o EscapeByte(escape_mode, src[n])

(* a printable ASCII character *)
IsPrintable(c) == c >= SPACE /\ c < DEL

(* C12: bounded encode.  For every source string, mode and max > 0: the
   bytes escape_string stores, terminator included, lie in dest[0..max-1];
   dest holds the whole escape sequences of the bytes consumed and nothing
   else; the count returned is the number of bytes consumed, at most the
   source length and less than it exactly when the whole encoding with its
   terminator does not fit in max; a Full output holds no newline, and every
   output byte is printable ASCII or, in Human mode, a newline right after a
   backslash. *)
C12_BoundedEncode ==
    (e_pc = "escaped" /\ e_esc.max > 0)
    => LET len == strlen(e_src, 1)
           dest == e_esc.dest
       IN  /\ Len(dest) > 0 => Len(dest) + 1 <= e_esc.max
           /\ e_esc.ret >= 0 /\ e_esc.ret <= len
           /\ dest = EscapeAll(e_esc.mode, e_src, e_esc.ret)
           /\ (e_esc.ret < len)
                <=> (Len(EscapeAll(e_esc.mode, e_src, len)) + 1 > e_esc.max)
           /\ e_esc.mode = ESC_FULL => \A k \in 1..Len(dest) : dest[k] # NL
           /\ \A k \in 1..Len(dest) :
                 \/ IsPrintable(dest[k])
                 \/ /\ e_esc.mode = ESC_HUMAN
                    /\ dest[k] = NL
                    /\ k > 1 /\ dest[k - 1] = BACKSLASH

(* C12 witness: escape_string stopped early in Human mode after writing a
   continuation newline, with room left for a part of the next byte's escape
   sequence but not for all of it *)
C12_Witness ==
    /\ e_pc = "escaped"
    /\ e_esc.mode = ESC_HUMAN
    /\ e_esc.ret >= 1
    /\ e_esc.ret < strlen(e_src, 1)
    /\ \E k \in 1..Len(e_esc.dest) : e_esc.dest[k] = NL
    /\ Len(EscapeByte(e_esc.mode, e_src[e_esc.ret + 1])) = 4
    /\ Len(e_esc.dest) + 2 < e_esc.max

(* C13: bounds of decode.  unescape_string on a NUL-terminated source reads
   no source position past the terminating NUL, and stores at most as many
   bytes before its own terminator as the source is long. *)
C13_DecodeWithinSource ==
    e_pc = "unescaped"
    => /\ e_dec.rd <= NulPos(e_src, 1)
       /\ Len(e_dec.dest) <= strlen(e_src, 1)

====
